---- MODULE Spec2Model ----
(***************************************************************************)
(* Model of the turnover report generator (main.py): the /report handler   *)
(* create_report and the workbook builder build_workbook.                  *)
(*                                                                         *)
(* Python strings are sequences of one-character strings, so that strip,   *)
(* replace, lower, startswith and float() are computed and not assumed.    *)
(* Numbers are decimal pairs m * 10^e in normal form (no trailing zero in  *)
(* m); binary rounding of IEEE doubles is not modelled.                    *)
(***************************************************************************)
EXTENDS Integers, Sequences, FiniteSets, TLC

(***************************************************************************)
(* Bounds of the explored inputs.                                          *)
(***************************************************************************)
MaxCols == 3
MaxRows == 2

(***************************************************************************)
(* Python string primitives.                                               *)
(***************************************************************************)
Whitespace == {" ", "\t", "\n", "\r", "\f"}

Upper == <<"A","B","C","D","E","F","G","H","I","J","K","L","M",
           "N","O","P","Q","R","S","T","U","V","W","X","Y","Z">>

LowerLetters == <<"a","b","c","d","e","f","g","h","i","j","k","l","m",
                  "n","o","p","q","r","s","t","u","v","w","x","y","z">>

LowerChar(ch) ==
    IF \E i \in 1..26 : Upper[i] = ch
    THEN LowerLetters[CHOOSE i \in 1..26 : Upper[i] = ch]
    ELSE ch

\* str.lower()
Lower(s) == [i \in 1..Len(s) |-> LowerChar(s[i])]

\* str.replace(ch, "") for a one-character ch
RemoveChar(s, ch) == SelectSeq(s, LAMBDA x : x # ch)

RECURSIVE LStrip(_)
LStrip(s) ==
    IF s # <<>> /\ Head(s) \in Whitespace THEN LStrip(Tail(s)) ELSE s

RECURSIVE RStrip(_)
RStrip(s) ==
    IF s # <<>> /\ s[Len(s)] \in Whitespace
    THEN RStrip(SubSeq(s, 1, Len(s) - 1)) ELSE s

\* str.strip()
Strip(s) == RStrip(LStrip(s))

\* str.startswith(p)
StartsWith(s, p) == Len(s) >= Len(p) /\ SubSeq(s, 1, Len(p)) = p

S_turnover == <<"t","u","r","n","o","v","e","r">>
S_percent  == <<"%">>

(***************************************************************************)
(* Cell values.  Every value carries a tag t.                              *)
(***************************************************************************)
StrV(s)    == [t |-> "str", s |-> s]
NoneV      == [t |-> "none"]
RECURSIVE Normal(_, _)
Normal(m, e) ==
    IF m = 0 THEN [m |-> 0, e |-> 0]
    ELSE IF m % 10 = 0 THEN Normal(m \div 10, e + 1)
    ELSE [m |-> m, e |-> e]
NumV(m, e) == [t |-> "num", m |-> Normal(m, e).m, e |-> Normal(m, e).e]
FormulaV(c1, r1, c2, r2) ==
    [t |-> "formula", fn |-> "SUM", c1 |-> c1, r1 |-> r1, c2 |-> c2, r2 |-> r2]

Digits == <<"0","1","2","3","4","5","6","7","8","9">>
IsDigit(ch) == \E i \in 1..10 : Digits[i] = ch
DigitVal(ch) == (CHOOSE i \in 1..10 : Digits[i] = ch) - 1

RECURSIVE DigitsVal(_, _)
\* value of a run of digits, accumulated left to right
DigitsVal(s, acc) ==
    IF s = <<>> THEN acc ELSE DigitsVal(Tail(s), acc * 10 + DigitVal(Head(s)))

\* the unsigned decimal literals float() accepts: digits, digits '.',
\* '.' digits, digits '.' digits (at least one digit in all)
ParseUnsigned(s) ==
    LET dots == {i \in 1..Len(s) : s[i] = "."}
        allDigitsOrDot == \A i \in 1..Len(s) : IsDigit(s[i]) \/ s[i] = "."
    IN  IF ~allDigitsOrDot \/ Cardinality(dots) > 1 \/ Len(s) = Cardinality(dots)
        THEN [ok |-> FALSE, m |-> 0, e |-> 0]
        ELSE IF dots = {}
        THEN [ok |-> TRUE, m |-> DigitsVal(s, 0), e |-> 0]
        ELSE LET d == CHOOSE i \in dots : TRUE
             IN  [ok |-> TRUE,
                  m |-> DigitsVal(RemoveChar(s, "."), 0),
                  e |-> 0 - (Len(s) - d)]

\* float(str): surrounding whitespace is ignored, one optional sign
ParseFloat(s0) ==
    LET s == Strip(s0)
    IN  IF s = <<>> THEN [ok |-> FALSE, m |-> 0, e |-> 0]
        ELSE IF Head(s) = "-"
        THEN LET p == ParseUnsigned(Tail(s))
             IN  [ok |-> p.ok, m |-> 0 - p.m, e |-> p.e]
        ELSE IF Head(s) = "+" THEN ParseUnsigned(Tail(s))
        ELSE ParseUnsigned(s)

\* float(val) for a cell value: a number converts to itself, a string is
\* parsed, anything else raises
Float(v) ==
    IF v.t = "num" THEN [ok |-> TRUE, v |-> v]
    ELSE IF v.t = "str" /\ ParseFloat(v.s).ok
    THEN [ok |-> TRUE, v |-> NumV(ParseFloat(v.s).m, ParseFloat(v.s).e)]
    ELSE [ok |-> FALSE, v |-> v]

\* x / 100.0
Div100(v) == NumV(v.m, v.e - 2)

RECURSIVE NumDigits(_)
NumDigits(n) == IF n < 10 THEN 1 ELSE 1 + NumDigits(n \div 10)

Abs(n) == IF n < 0 THEN 0 - n ELSE n
Max(a, b) == IF a >= b THEN a ELSE b

\* len(str(v)) for a raw JSON value: a number with e >= 0 is a JSON integer
ReprLen(v) ==
    IF v.t = "str" THEN Len(v.s)
    ELSE IF v.t = "none" THEN 4
    ELSE LET d == NumDigits(Abs(v.m))
             sign == IF v.m < 0 THEN 1 ELSE 0
         IN  IF v.e >= 0 THEN sign + d + v.e
             ELSE IF d > 0 - v.e THEN sign + d + 1
             ELSE sign + (0 - v.e) + 2

\* openpyxl.utils.get_column_letter for the first 26 columns
get_column_letter(i) == Upper[i]

(***************************************************************************)
(* Python dicts are functions; d.get(k, default) and "k in d".             *)
(***************************************************************************)
Get(d, k, default) == IF k \in DOMAIN d THEN d[k] ELSE default

Restrict(d, ks) == [k \in ks |-> d[k]]

(***************************************************************************)
(* Inputs.                                                                 *)
(***************************************************************************)
RequiredKeys == <<"caption", "dateTimeUser", "legend", "columns", "rows">>
RequiredSet  == {RequiredKeys[i] : i \in 1..Len(RequiredKeys)}

AcceptedTypes == {"application/json", "text/json", "application/octet-stream"}
ContentTypes  == AcceptedTypes \cup {"text/plain"}

Cap_pct      == <<"%">>
Cap_pctWs    == <<" ", "%", "\n">>
Cap_turnover == <<"T","u","r","n","o","v","e","r","\r","\n","E","U","R">>
Cap_lead     == <<" ","T","U","R","N","\n","O","V","E","R">>
Cap_store    == <<"S","t","o","r","e">>
Cap_net      == <<"N","e","t"," ","t","u","r","n","o","v","e","r">>
Captions     == {Cap_pct, Cap_pctWs, Cap_turnover, Cap_lead, Cap_store, Cap_net}

V_pct     == NumV(64, -1)                               \* 6.4
V_int     == NumV(200, 0)                               \* 200
V_numstr  == StrV(<<"1","2","3","4",".","5">>)          \* "1234.5"
V_padded  == StrV(<<" ","-","2","0"," ">>)              \* " -20 "
V_empty   == StrV(<<>>)                                 \* ""
V_text    == StrV(<<"n","/","a">>)                      \* "n/a"
V_twodots == StrV(<<"1",".","2",".","3">>)              \* "1.2.3"
V_label   == StrV(<<"A">>)
CellInputs == {V_pct, V_int, V_numstr, V_padded, V_empty, V_text, V_twodots, NoneV}
Missing    == [t |-> "missing"]

\* a row object with keys "a" and "b" present or not, and "c" always
MkRow(a, b) ==
    [k \in {"c"} \cup (IF a = Missing THEN {} ELSE {"a"})
                 \cup (IF b = Missing THEN {} ELSE {"b"})
       |-> IF k = "a" THEN a ELSE IF k = "b" THEN b ELSE V_label]

RowsFull == {MkRow(a, b) : a \in CellInputs \cup {Missing},
                           b \in CellInputs \cup {Missing}}

SampleRow(i) ==
    IF i % 2 = 1
    THEN MkRow(StrV(<<"1","0">>), StrV(<<"1","0","0",".","5">>))
    ELSE MkRow(StrV(<<"2","0">>), StrV(<<"2","0","0">>))

BaseRows(n) == [i \in 1..n |-> SampleRow(i)]

RowSeqs ==
    {<<>>} \cup {Append(BaseRows(n), r) : n \in 0..(MaxRows - 1), r \in RowsFull}

SeqsUpTo(S, n) == UNION {[1..k -> S] : k \in 0..n}

TypedColDefs == {[name |-> "a", caption |-> Cap_pct],
                 [name |-> "b", caption |-> Cap_turnover],
                 [name |-> "c", caption |-> Cap_store]}

CapColDefs == {[name |-> "b", caption |-> c] : c \in Captions}
              \cup {[name |-> "b"], [caption |-> Cap_store]}

SampleCols == << [name |-> "c", caption |-> Cap_store],
                 [name |-> "b", caption |-> Cap_turnover],
                 [name |-> "a", caption |-> Cap_pct] >>

S_period == <<"P","e","r","i","o","d">>
S_jan    == <<"J","a","n">>
Legends == {[isList |-> FALSE, items |-> <<>>],
            [isList |-> TRUE, items |-> <<>>],
            [isList |-> TRUE, items |-> <<[label |-> S_period, value |-> S_jan]>>],
            [isList |-> TRUE, items |-> <<[label |-> S_period], [value |-> S_jan]>>]}
SampleLegend == [isList |-> TRUE, items |-> <<[label |-> S_period, value |-> S_jan]>>]

S_title == <<"T","u","r","n","o","v","e","r">>
S_stamp == <<"0","9",":","0","0"," ","a","l","i","c","e">>

MkPayload(ks, legend, columns, rs) ==
    Restrict([caption |-> S_title, dateTimeUser |-> S_stamp, legend |-> legend,
              columns |-> columns, rows |-> rs], ks)

ObjectBody(p) == [kind |-> "object", value |-> p]

\* JSON values that are not objects; an array or a string is described by
\* the required key names it contains (as elements, as substrings)
OtherBodies ==
    {[kind |-> k] : k \in {"badjson", "badutf8", "number", "null", "bool"}}
    \cup {[kind |-> k, has |-> h] : k \in {"array", "string"},
                                    h \in {{}, {"caption"}, RequiredSet}}

HttpRequests ==
    {[content_type |-> ct, body |-> b] :
        ct \in ContentTypes,
        b \in OtherBodies \cup
              {ObjectBody(MkPayload(RequiredSet, SampleLegend, SampleCols, BaseRows(n)))
                  : n \in 0..MaxRows}}

KeyRequests ==
    {[content_type |-> "application/json",
      body |-> ObjectBody(MkPayload(ks, l, c, BaseRows(n)))] :
        ks \in SUBSET RequiredSet, l \in Legends,
        c \in {<<>>, SampleCols}, n \in 0..MaxRows}

CaptionRequests ==
    {[content_type |-> "application/json",
      body |-> ObjectBody(MkPayload(RequiredSet, SampleLegend, c, BaseRows(n)))] :
        c \in SeqsUpTo(CapColDefs, MaxCols), n \in 0..MaxRows}

ValueRequests ==
    {[content_type |-> "text/json",
      body |-> ObjectBody(MkPayload(RequiredSet, SampleLegend, c, rs))] :
        c \in SeqsUpTo(TypedColDefs, MaxCols), rs \in RowSeqs}

Requests == HttpRequests \cup KeyRequests \cup CaptionRequests \cup ValueRequests

(***************************************************************************)
(* State: the upload, the handler's position, build_workbook's locals, the *)
(* worksheet and the HTTP response.                                        *)
(***************************************************************************)
VARIABLES request, pc, payload, exc, response, buf,
          legend_text, col_defs, rows, captions, keys,
          ws, merged, title, widths, auto_filter, freeze_panes,
          percent_col_idx, turnover_col_idx, r_idx, total_row, logo

vars == <<request, pc, payload, exc, response, buf,
          legend_text, col_defs, rows, captions, keys,
          ws, merged, title, widths, auto_filter, freeze_panes,
          percent_col_idx, turnover_col_idx, r_idx, total_row, logo>>

locals == <<legend_text, col_defs, rows, captions, keys>>
sheet  == <<ws, merged, title, widths, auto_filter, freeze_panes>>
idxs   == <<percent_col_idx, turnover_col_idx>>

header_row == 5
start_row  == header_row + 1
None       == 0

FMT_GENERAL  == "General"
FMT_CURRENCY == "#,##0.00"
FMT_PERCENT  == "0.0%"

NoExc      == [type |-> "none"]
NoResponse == [status |-> 0, detail |-> "", doc |-> FALSE, filename |-> ""]
BlankCell  == [value |-> NoneV, number_format |-> FMT_GENERAL,
               bold |-> FALSE, border |-> "none"]
EmptySheet == [x \in {} |-> BlankCell]

\* ws.cell(row=r, column=c): the cell, created blank when it does not exist
Cell(sh, r, c) == IF <<r, c>> \in DOMAIN sh THEN sh[<<r, c>>] ELSE BlankCell

\* the sheet after the cells of upd (a function on coordinates) are stored
Store(sh, upd) ==
    [x \in DOMAIN sh \cup DOMAIN upd |-> IF x \in DOMAIN upd THEN upd[x] ELSE sh[x]]

Init ==
    /\ request \in Requests
    /\ pc = "receive"
    /\ payload = [kind |-> "unset"]
    /\ exc = NoExc
    /\ response = NoResponse
    /\ buf = "unset"
    /\ legend_text = <<>>
    /\ col_defs = <<>>
    /\ rows = <<>>
    /\ captions = <<>>
    /\ keys = <<>>
    /\ ws = EmptySheet
    /\ merged = {}
    /\ title = ""
    /\ widths = <<>>
    /\ auto_filter = [set |-> FALSE]
    /\ freeze_panes = ""
    /\ percent_col_idx = None
    /\ turnover_col_idx = None
    /\ r_idx = start_row
    /\ total_row = 0
    /\ logo = FALSE

\* raise e inside the handler's try block
Raise(e) == exc' = e /\ pc' = "except"

(***************************************************************************)
(* create_report: content-type gate, read and parse.                       *)
(***************************************************************************)
ReceiveUpload ==
    /\ pc = "receive"
    /\ IF request.content_type \notin AcceptedTypes
       THEN /\ response' = [status |-> 400, detail |-> "Please upload a JSON file.",
                            doc |-> FALSE, filename |-> ""]
            /\ pc' = "done"
       ELSE /\ pc' = "parse"
            /\ UNCHANGED response
    /\ UNCHANGED <<request, payload, exc, buf, locals, sheet, idxs, r_idx, total_row, logo>>

ReadAndParse ==
    /\ pc = "parse"
    /\ IF request.body.kind = "badutf8"
       THEN Raise([type |-> "UnicodeDecodeError"]) /\ UNCHANGED payload
       ELSE IF request.body.kind = "badjson"
       THEN Raise([type |-> "JSONDecodeError"]) /\ UNCHANGED payload
       ELSE payload' = request.body /\ pc' = "validate" /\ UNCHANGED exc
    /\ UNCHANGED <<request, response, buf, locals, sheet, idxs, r_idx, total_row, logo>>

(***************************************************************************)
(* build_workbook.                                                         *)
(***************************************************************************)
\* the keys for which "key in payload" is true
PresentKeys(p) ==
    IF p.kind = "object" THEN DOMAIN p.value ELSE p.has

\* variant: the message always names the first key of the tuple
FirstMissing_AlwaysFirst(present) == RequiredKeys[1]

\* the first key of the tuple that "key not in payload" finds
FirstMissing(present) ==
    RequiredKeys[CHOOSE i \in 1..Len(RequiredKeys) :
                    /\ RequiredKeys[i] \notin present
                    /\ \A j \in 1..(i - 1) : RequiredKeys[j] \in present]

RequiredPresent(present) == \A i \in 1..Len(RequiredKeys) : RequiredKeys[i] \in present

Validate ==
    /\ pc = "validate"
    /\ IF payload.kind \in {"number", "null", "bool"}
       THEN Raise([type |-> "TypeError"])
       ELSE IF ~RequiredPresent(PresentKeys(payload))
       THEN Raise([type |-> "ValueError", text |-> "Missing required key",
                   key |-> FirstMissing(PresentKeys(payload))])
       ELSE pc' = "fields" /\ UNCHANGED exc
    /\ UNCHANGED <<request, payload, response, buf, locals, sheet, idxs, r_idx, total_row, logo>>

\* variant: the emptiness test never fires
NotTruthy_Never(l) == FALSE

\* "not col_defs" for a list
NotTruthy(l) == l = <<>>

S_sep   == <<" ", "|", " ">>
S_colon == <<":", " ">>

RECURSIVE JoinLegend(_)
JoinLegend(items) ==
    IF items = <<>> THEN <<>>
    ELSE LET one == Get(Head(items), "label", <<>>) \o S_colon
                    \o Get(Head(items), "value", <<>>)
         IN  IF Len(items) = 1 THEN one
             ELSE one \o S_sep \o JoinLegend(Tail(items))

ReadFields ==
    /\ pc = "fields"
    /\ IF payload.kind # "object"
       THEN Raise([type |-> "TypeError"]) /\ UNCHANGED locals
       ELSE LET p == payload.value
            IN  /\ legend_text' = IF p.legend.isList /\ p.legend.items # <<>>
                                  THEN JoinLegend(p.legend.items) ELSE <<>>
                /\ col_defs' = p.columns
                /\ rows' = p.rows
                /\ IF NotTruthy(p.columns)
                   THEN /\ Raise([type |-> "ValueError", text |-> "No columns provided."])
                        /\ UNCHANGED <<captions, keys>>
                   ELSE /\ captions' = [i \in 1..Len(p.columns) |->
                                           Get(p.columns[i], "caption", <<>>)]
                        /\ keys' = [i \in 1..Len(p.columns) |->
                                           Get(p.columns[i], "name", "")]
                        /\ pc' = "banner"
                        /\ UNCHANGED exc
    /\ UNCHANGED <<request, payload, response, buf, sheet, idxs, r_idx, total_row, logo>>

\* get_column_letter raises ValueError for an index below 1
Banner ==
    /\ pc = "banner"
    /\ title' = "Report"
    /\ IF Len(captions) < 1
       THEN /\ Raise([type |-> "ValueError", text |-> "Invalid column index"])
            /\ UNCHANGED <<ws, merged>>
       ELSE /\ merged' = {[row |-> r, first |-> "A",
                           last |-> get_column_letter(Len(captions))] : r \in 1..3}
            /\ ws' = Store(ws,
                 [x \in {<<1, 1>>, <<2, 1>>, <<3, 1>>} |->
                   [BlankCell EXCEPT
                      !.value = IF x[1] = 1 THEN StrV(payload.value.dateTimeUser)
                                ELSE IF x[1] = 2 THEN StrV(payload.value.caption)
                                ELSE StrV(legend_text),
                      !.bold = x[1] \in {1, 2}]])
            /\ pc' = "header"
            /\ UNCHANGED exc
    /\ UNCHANGED <<request, payload, response, buf, locals,
                   widths, auto_filter, freeze_panes, idxs, r_idx, total_row, logo>>

Header ==
    /\ pc = "header"
    /\ ws' = Store(ws,
               [x \in {<<header_row, c>> : c \in 1..Len(captions)} |->
                   [BlankCell EXCEPT !.value = StrV(captions[x[2]]),
                                     !.bold = TRUE, !.border = "thin"]])
    /\ pc' = "identify"
    /\ UNCHANGED <<request, payload, exc, response, buf, locals, merged, title,
                   widths, auto_filter, freeze_panes, idxs, r_idx, total_row, logo>>

IsPercentCaption(cap) == Strip(cap) = S_percent

\* variant: CR and LF are removed but the caption is not trimmed
IsTurnoverCaption_NoStrip(cap) ==
    StartsWith(Lower(RemoveChar(RemoveChar(cap, "\r"), "\n")), S_turnover)

IsTurnoverCaption(cap) ==
    StartsWith(Lower(Strip(RemoveChar(RemoveChar(cap, "\r"), "\n"))), S_turnover)

\* the loop keeps the last index that matched
LastMatch(hits) ==
    IF hits = {} THEN None ELSE CHOOSE i \in hits : \A j \in hits : j <= i

IdentifyColumns ==
    /\ pc = "identify"
    /\ percent_col_idx' =
          LastMatch({i \in 1..Len(captions) : IsPercentCaption(captions[i])})
    /\ turnover_col_idx' =
          LastMatch({i \in 1..Len(captions) : IsTurnoverCaption(captions[i])})
    /\ r_idx' = start_row
    /\ pc' = IF rows = <<>> THEN "widths" ELSE "rows"
    /\ UNCHANGED <<request, payload, exc, response, buf, locals, sheet, total_row, logo>>

\* variant: the percentage is converted but not scaled
PercentTransform_NoScale(val) ==
    IF val # NoneV /\ val # StrV(<<>>) /\ Float(val).ok
    THEN Float(val).v ELSE val

\* the two try blocks of the data-row loop
PercentTransform(val) ==
    IF val # NoneV /\ val # StrV(<<>>) /\ Float(val).ok
    THEN Div100(Float(val).v) ELSE val

TurnoverTransform(val) ==
    IF val # NoneV /\ val # StrV(<<>>) /\ Float(val).ok
    THEN Float(val).v ELSE val

CellValue(row, c_idx) ==
    LET val  == Get(row, keys[c_idx], StrV(<<>>))
        val1 == IF percent_col_idx # None /\ c_idx = percent_col_idx
                THEN PercentTransform(val) ELSE val
    IN  IF turnover_col_idx # None /\ c_idx = turnover_col_idx
        THEN TurnoverTransform(val1) ELSE val1

WriteDataRow ==
    /\ pc = "rows"
    /\ r_idx - start_row < Len(rows)
    /\ ws' = Store(ws,
               [x \in {<<r_idx, c>> : c \in 1..Len(keys)} |->
                   [BlankCell EXCEPT
                      !.value = CellValue(rows[r_idx - start_row + 1], x[2]),
                      !.border = "sides"]])
    /\ r_idx' = r_idx + 1
    /\ pc' = IF r_idx - start_row + 1 = Len(rows) THEN "widths" ELSE "rows"
    /\ UNCHANGED <<request, payload, exc, response, buf, locals, merged, title,
                   widths, auto_filter, freeze_panes, idxs, total_row, logo>>

data_rows == Len(rows)
end_row   == header_row + data_rows

\* col_def["caption"], col_def["name"] raise KeyError on a missing key
HasBothKeys(col_def) == "caption" \in DOMAIN col_def /\ "name" \in DOMAIN col_def

ColumnWidth(col_def) ==
    LET cap == col_def["caption"]
        key == col_def["name"]
        lens == {ReprLen(Get(rows[i], key, StrV(<<>>))) : i \in 1..Len(rows)}
        max_len_in_data == IF lens = {} THEN 0
                           ELSE CHOOSE n \in lens : \A k \in lens : k <= n
    IN  Max(Len(cap), max_len_in_data) + 5

ColumnWidths ==
    /\ pc = "widths"
    /\ LET bad == {i \in 1..Len(col_defs) : ~HasBothKeys(col_defs[i])}
       IN  IF bad # {}
           THEN LET i == CHOOSE i \in bad : \A j \in bad : i <= j
                IN  /\ widths' = [j \in 1..(i - 1) |-> ColumnWidth(col_defs[j])]
                    /\ Raise([type |-> "KeyError",
                              key |-> IF "caption" \in DOMAIN col_defs[i]
                                      THEN "name" ELSE "caption"])
           ELSE /\ widths' = [j \in 1..Len(col_defs) |-> ColumnWidth(col_defs[j])]
                /\ pc' = "formats"
                /\ UNCHANGED exc
    /\ UNCHANGED <<request, payload, response, buf, locals, ws, merged, title,
                   auto_filter, freeze_panes, idxs, r_idx, total_row, logo>>

\* the sheet after number_format = fmt on every data row of column col
FormatColumn(sh, col, fmt) ==
    Store(sh, [x \in {<<r, col>> : r \in start_row..end_row} |->
                  [Cell(sh, x[1], x[2]) EXCEPT !.number_format = fmt]])

NumberFormats ==
    /\ pc = "formats"
    /\ LET ws1 == IF turnover_col_idx # None
                  THEN FormatColumn(ws, turnover_col_idx, FMT_CURRENCY) ELSE ws
       IN  ws' = IF percent_col_idx # None
                 THEN FormatColumn(ws1, percent_col_idx, FMT_PERCENT) ELSE ws1
    /\ pc' = "filter"
    /\ UNCHANGED <<request, payload, exc, response, buf, locals, merged, title,
                   widths, auto_filter, freeze_panes, idxs, r_idx, total_row, logo>>

FilterAndFreeze ==
    /\ pc = "filter"
    /\ auto_filter' = IF data_rows >= 0
                      THEN [set |-> TRUE, first |-> "A", top |-> header_row,
                            last |-> get_column_letter(Len(captions)),
                            bottom |-> Max(end_row, header_row)]
                      ELSE auto_filter
    /\ freeze_panes' = "A6"
    /\ pc' = "totals"
    /\ UNCHANGED <<request, payload, exc, response, buf, locals, ws, merged, title,
                   widths, idxs, r_idx, total_row, logo>>

\* variant: the totals row lands on the last written row
TotalRow_OffByOne == IF data_rows >= 1 THEN end_row ELSE header_row

TotalRow == IF data_rows >= 1 THEN end_row + 1 ELSE header_row + 1

LabelCol == IF turnover_col_idx > 1 THEN turnover_col_idx - 1 ELSE 1

first_data == start_row
last_data  == IF data_rows >= 1 THEN end_row ELSE start_row

SumFormula(col) ==
    FormulaV(get_column_letter(col), first_data, get_column_letter(col), last_data)

\* the sheet after one cell is replaced
Put(sh, r, c, cell) == Store(sh, <<r, c>> :> cell)

TotalsRow ==
    /\ pc = "totals"
    /\ total_row' = TotalRow
    /\ IF turnover_col_idx # None
       THEN LET tr  == TotalRow
                ws1 == Put(ws, tr, LabelCol,
                           [Cell(ws, tr, LabelCol) EXCEPT
                               !.value = StrV(<<"T","o","t","a","l">>), !.bold = TRUE])
                ws2 == Put(ws1, tr, turnover_col_idx,
                           [Cell(ws1, tr, turnover_col_idx) EXCEPT
                               !.value = SumFormula(turnover_col_idx),
                               !.number_format = FMT_CURRENCY, !.bold = TRUE])
                ws3 == IF percent_col_idx # None
                       THEN Put(ws2, tr, percent_col_idx,
                                [Cell(ws2, tr, percent_col_idx) EXCEPT
                                    !.value = SumFormula(percent_col_idx),
                                    !.number_format = FMT_PERCENT, !.bold = TRUE])
                       ELSE ws2
            IN  ws' = Store(ws3, [x \in {<<tr, c>> : c \in 1..Len(captions)} |->
                                     [Cell(ws3, x[1], x[2]) EXCEPT !.border = "totals"]])
       ELSE UNCHANGED ws
    /\ pc' = "logo"
    /\ UNCHANGED <<request, payload, exc, response, buf, locals, merged, title,
                   widths, auto_filter, freeze_panes, idxs, r_idx, logo>>

\* resolve_logo_path depends on the host's files; a failure to add the
\* image is caught and logged
Logo ==
    /\ pc = "logo"
    /\ \E found \in BOOLEAN : logo' = found
    /\ pc' = "save"
    /\ UNCHANGED <<request, payload, exc, response, buf, locals, sheet, idxs,
                   r_idx, total_row>>

Save ==
    /\ pc = "save"
    /\ buf' = "saved"
    /\ pc' = "respond"
    /\ UNCHANGED <<request, payload, exc, response, locals, sheet, idxs,
                   r_idx, total_row, logo>>

(***************************************************************************)
(* create_report: the except clauses and the response.                     *)
(***************************************************************************)
\* json.JSONDecodeError and UnicodeDecodeError derive from ValueError, and
\* "except ValueError" is the first clause
ValueErrors == {"ValueError", "JSONDecodeError", "UnicodeDecodeError"}

HandleError ==
    /\ pc = "except"
    /\ response' = [status |-> IF exc.type \in ValueErrors THEN 400 ELSE 500,
                    detail |-> exc.type, doc |-> FALSE, filename |-> ""]
    /\ pc' = "done"
    /\ UNCHANGED <<request, payload, exc, buf, locals, sheet, idxs, r_idx, total_row, logo>>

Respond ==
    /\ pc = "respond"
    /\ response' = [status |-> 200, detail |-> "", doc |-> buf = "saved",
                    filename |-> "turnover-report.xlsx"]
    /\ pc' = "done"
    /\ UNCHANGED <<request, payload, exc, buf, locals, sheet, idxs, r_idx, total_row, logo>>

Next ==
    \/ ReceiveUpload
    \/ ReadAndParse
    \/ Validate
    \/ ReadFields
    \/ Banner
    \/ Header
    \/ IdentifyColumns
    \/ WriteDataRow
    \/ ColumnWidths
    \/ NumberFormats
    \/ FilterAndFreeze
    \/ TotalsRow
    \/ Logo
    \/ Save
    \/ HandleError
    \/ Respond

Spec == Init /\ [][Next]_vars

TypeOK ==
    /\ pc \in {"receive", "parse", "validate", "fields", "banner", "header",
               "identify", "rows", "widths", "formats", "filter", "totals",
               "logo", "save", "respond", "except", "done"}
    /\ response.status \in {0, 200, 400, 500}

(***************************************************************************)
(* Vocabulary of the properties.                                           *)
(***************************************************************************)
IsObject      == payload.kind = "object"
HasAllKeys    == IsObject /\ RequiredSet \subseteq DOMAIN payload.value
Returned      == buf = "saved"
Finished      == pc = "done"
InputRows     == payload.value.rows
InputCols     == payload.value.columns
NRows         == Len(InputRows)
AfterTotals   == pc \in {"logo", "save", "respond"} \/ (pc = "done" /\ Returned)
S_total       == <<"T","o","t","a","l">>
BelowData     == {x \in DOMAIN ws : x[1] > header_row + NRows}

\* the raw value row i holds for column j, or Missing
RawValue(i, j) ==
    LET nm == Get(InputCols[j], "name", "")
    IN  IF nm \in DOMAIN InputRows[i] THEN InputRows[i][nm] ELSE Missing

IsNumericInput(v) ==
    v.t = "num" \/ (v.t = "str" /\ ParseFloat(v.s).ok)

\* C1: a payload object lacking a required key makes build_workbook raise
\* ValueError whose message names a key that is missing, and no document
\* is produced.
C1_MissingKeyRaisesValueError ==
    (IsObject /\ ~HasAllKeys /\ pc # "validate")
        => /\ exc.type = "ValueError"
           /\ exc.text = "Missing required key"
           /\ exc.key \in RequiredSet \ DOMAIN payload.value
           /\ ~Returned
           /\ ws = EmptySheet
           /\ response.doc = FALSE

C1_Witness ==
    /\ Finished /\ IsObject
    /\ "caption" \in DOMAIN payload.value
    /\ "rows" \notin DOMAIN payload.value
    /\ exc.type = "ValueError" /\ exc.key # "caption"
    /\ response.status = 400

\* C2: every payload with the five keys and a non-empty columns list is
\* built without any error, into one worksheet named Report whose row 5
\* holds the input captions in input order.
C2_ValidPayloadAlwaysBuilds ==
    (Finished /\ HasAllKeys /\ InputCols # <<>>)
        => /\ exc = NoExc
           /\ Returned
           /\ title = "Report"
           /\ \A j \in 1..Len(InputCols) :
                 Cell(ws, header_row, j).value = StrV(Get(InputCols[j], "caption", <<>>))

\* C3: a totals row is written exactly when a currency column exists, at
\* row 6+N; without a currency column nothing is written below the data.
C3_TotalsRowPlacement ==
    AfterTotals
        => /\ (BelowData # {}) <=> (turnover_col_idx # None)
           /\ \A x \in BelowData : x[1] = 6 + NRows
           /\ turnover_col_idx # None
                 => /\ \A c \in 1..Len(InputCols) : <<6 + NRows, c>> \in DOMAIN ws
                    /\ total_row = 6 + NRows
                    /\ NRows >= 1 => total_row = (header_row + NRows) + 1
                    /\ NRows = 0 => total_row = header_row + 1

C3_Witness ==
    /\ Finished /\ Returned
    /\ turnover_col_idx # None /\ percent_col_idx # None
    /\ NRows = MaxRows
    /\ <<6 + MaxRows, turnover_col_idx>> \in DOMAIN ws
    /\ <<7 + MaxRows, turnover_col_idx>> \notin DOMAIN ws

\* C4: whenever a totals row is written, the cell left of the currency
\* column (column 1 when the currency column is first) holds "Total".
C4_TotalLabelPresent ==
    (AfterTotals /\ turnover_col_idx # None)
        => Cell(ws, 6 + NRows,
                IF turnover_col_idx > 1 THEN turnover_col_idx - 1 ELSE 1).value
             = StrV(S_total)

\* C5: an empty, absent or non-numeric string value in the percent or the
\* currency column is written unchanged, raises nothing, and its cell
\* does not get the numeric display format.
C5_NonNumericKeepsGeneralFormat ==
    (Finished /\ Returned)
        => \A i \in 1..NRows :
             \A j \in {percent_col_idx, turnover_col_idx} \ {None} :
                LET raw == RawValue(i, j)
                    cell == Cell(ws, header_row + i, j)
                IN  (raw = Missing \/ (raw.t = "str" /\ ~ParseFloat(raw.s).ok))
                       => /\ exc = NoExc
                          /\ cell.value = IF raw = Missing THEN StrV(<<>>) ELSE raw
                          /\ cell.number_format \notin {FMT_PERCENT, FMT_CURRENCY}

\* C6: data cell (6+i, j) holds value/100 with format 0.0% in the percent
\* column and the number with format #,##0.00 in the currency column when
\* the input is numeric, and the looked-up value verbatim (empty string
\* when the key is absent) in every other column.
C6_DataCellContents ==
    (Finished /\ Returned)
        => \A i \in 1..NRows : \A j \in 1..Len(InputCols) :
             LET raw == RawValue(i, j)
                 cell == Cell(ws, 5 + i, j)
             IN  /\ (j = percent_col_idx /\ raw # Missing /\ IsNumericInput(raw))
                       => /\ cell.value.t = "num"
                          /\ cell.value = Div100(Float(raw).v)
                          /\ cell.number_format = "0.0%"
                 /\ (j = turnover_col_idx /\ raw # Missing /\ IsNumericInput(raw))
                       => /\ cell.value.t = "num"
                          /\ cell.value = Float(raw).v
                          /\ cell.number_format = "#,##0.00"
                 /\ (j # percent_col_idx /\ j # turnover_col_idx)
                       => cell.value = IF raw = Missing THEN StrV(<<>>) ELSE raw
                 \* the worked examples: 6.4 -> 0.064, "1234.5" -> 1234.5
                 /\ (j = percent_col_idx /\ raw = V_pct)
                       => cell.value = [t |-> "num", m |-> 64, e |-> -3]
                 /\ (j = turnover_col_idx /\ raw = V_numstr)
                       => cell.value = [t |-> "num", m |-> 12345, e |-> -1]
                 /\ (j = percent_col_idx /\ raw = V_padded)
                       => cell.value = [t |-> "num", m |-> -2, e |-> -1]

C6_Witness ==
    /\ Finished /\ Returned /\ NRows >= 1
    /\ percent_col_idx # None /\ turnover_col_idx # None
    /\ \E i \in 1..NRows :
          /\ RawValue(i, percent_col_idx) = V_pct
          /\ RawValue(i, turnover_col_idx) = V_numstr
          /\ Cell(ws, 5 + i, percent_col_idx).value = [t |-> "num", m |-> 64, e |-> -3]
          /\ Cell(ws, 5 + i, turnover_col_idx).number_format = FMT_CURRENCY

\* a report payload as the data model describes it: an object with the
\* five keys and a non-empty list of {name, caption} columns
StructurallyValid(body) ==
    /\ body.kind = "object"
    /\ RequiredSet \subseteq DOMAIN body.value
    /\ body.value.columns # <<>>
    /\ \A j \in 1..Len(body.value.columns) :
          {"name", "caption"} \subseteq DOMAIN body.value.columns[j]

\* C7: /report answers 400 when the content type is not accepted, the
\* body is not JSON, or the parsed value is not a structurally valid
\* payload; it answers 200 with the attachment otherwise; no failing
\* answer carries a document.
C7_InvalidUploadIsClientError ==
    Finished
        => LET rejected == \/ request.content_type \notin AcceptedTypes
                           \/ request.body.kind \in {"badjson", "badutf8"}
                           \/ ~StructurallyValid(request.body)
           IN  /\ rejected => (response.status = 400 /\ ~response.doc)
               /\ ~rejected => /\ response.status = 200
                               /\ response.doc
                               /\ response.filename = "turnover-report.xlsx"
               /\ response.status # 200 => ~response.doc

C9_SumRangeExcludesTotalsRow ==
    (AfterTotals /\ turnover_col_idx # None)
        => \A j \in {turnover_col_idx, percent_col_idx} \ {None} :
              LET f == Cell(ws, 6 + NRows, j).value
              IN  /\ f.t = "formula"
                  /\ f.fn = "SUM"
                  /\ f.c1 = get_column_letter(j) /\ f.c2 = get_column_letter(j)
                  /\ NRows >= 1 => (f.r1 = 6 /\ f.r2 = 5 + NRows)
                  /\ (6 + NRows) \notin f.r1..f.r2

\* the captions of the explored inputs, classified by hand
TurnoverCaptions == {Cap_turnover, Cap_lead}
PercentCaptions  == {Cap_pct, Cap_pctWs}
RemoveCRLF(cap)  == RemoveChar(RemoveChar(cap, "\r"), "\n")
Identified       == pc \in {"rows", "widths", "formats", "filter", "totals"} \/ AfterTotals

\* C10 as stated: column j is the currency column exactly when its
\* caption, CR and LF removed and lower-cased, starts with "turnover", and
\* the percent column exactly when its trimmed caption is "%".
C10_AsStated ==
    Identified
        => \A j \in 1..Len(captions) :
              /\ (turnover_col_idx = j)
                    <=> StartsWith(Lower(RemoveCRLF(captions[j])), S_turnover)
              /\ (percent_col_idx = j) <=> (Strip(captions[j]) = S_percent)

\* C10 amended: the currency column is the last column whose caption, CR
\* and LF removed, trimmed and lower-cased, starts with "turnover"; the
\* percent column is the last column whose trimmed caption is "%"; with no
\* match the transform, the number format and the totals formula of that
\* kind are absent from the document.
C10_LastMatchingCaption ==
    Identified
        => LET tHits == {j \in 1..Len(captions) : captions[j] \in TurnoverCaptions}
               pHits == {j \in 1..Len(captions) : captions[j] \in PercentCaptions}
           IN  /\ \A j \in 1..Len(captions) :
                     /\ (turnover_col_idx = j) <=> (j \in tHits /\ \A k \in tHits : k <= j)
                     /\ (percent_col_idx = j) <=> (j \in pHits /\ \A k \in pHits : k <= j)
               /\ tHits = {} => turnover_col_idx = None
               /\ pHits = {} => percent_col_idx = None
               /\ (Finished /\ tHits = {})
                     => /\ exc = NoExc
                        /\ \A x \in DOMAIN ws : /\ ws[x].number_format # FMT_CURRENCY
                                                /\ ws[x].value.t # "formula"
               /\ (Finished /\ pHits = {})
                     => /\ exc = NoExc
                        /\ \A x \in DOMAIN ws : ws[x].number_format # FMT_PERCENT
               /\ (Finished /\ tHits = {} /\ pHits = {})
                     => \A i \in 1..NRows : \A j \in 1..Len(captions) :
                           Cell(ws, 5 + i, j).value
                              = Get(InputRows[i], keys[j], StrV(<<>>))

C10_Witness ==
    /\ Finished /\ Returned
    /\ Len(captions) = MaxCols
    /\ captions[1] = Cap_turnover
    /\ captions[2] = Cap_lead
    /\ turnover_col_idx = 2
    /\ percent_col_idx = None

====
